---- MODULE Spec2Model ----
(***************************************************************************)
(* A model of smart-tts/index.js: synthesize (one external python3 process *)
(* per call, its stderr 'data', 'close' and 'error' handlers and the       *)
(* promise they settle), detectLanguage (four regular-expression tests in  *)
(* a fixed order) and the command-line entry point.                        *)
(*                                                                         *)
(* Node's part of the contract is modelled as the environment:             *)
(*   - spawn either starts the process, or fails asynchronously ('error'   *)
(*     is emitted and 'close' follows with the negative errno as code), or *)
(*     throws inside the promise executor;                                 *)
(*   - the bytes the process writes to stderr travel through a pipe and    *)
(*     reach the 'data' handler as Buffers cut at arbitrary byte           *)
(*     boundaries; 'close' is emitted after the process has ended and the  *)
(*     pipe has been drained;                                              *)
(*   - a promise is settled by the first resolve/reject only;              *)
(*   - promise reactions (.then/.catch) run before the next event.         *)
(***************************************************************************)
EXTENDS Integers, Sequences, FiniteSets, TLC

\* ------------------------------------------------------------------------
\* Bounds of the model
\* ------------------------------------------------------------------------
MaxCalls == 2          \* synthesize calls that may be in flight together
MaxStderrChars == 1    \* characters one process writes to its stderr
MaxTextLen == 2        \* length of the texts given to detectLanguage
MaxArgs == 2           \* command-line arguments after the script name

CallIds == 1..MaxCalls

VARIABLES
    call,       \* call[i]: the arguments (text, options) of call i, or NoCall
    output,     \* output[i]: the closure constant `output` of call i
    spawned,    \* spawned[i]: the argument lists of the processes call i launched
    proc,       \* proc[i]: the external process of call i and its stderr pipe
    chunks,     \* chunks[i]: the Buffers delivered to call i's 'data' handler
    stderr,     \* stderr[i]: the closure variable `stderr` of call i
    promise,    \* promise[i]: the promise synthesize returned for call i
    closeObs,   \* closeObs[i]: what the 'close' handler of call i observed
    fs,         \* fs[p]: the file at path p
    cli,        \* the command-line process (argv, output streams, exit status)
    dtext,      \* the text handed to detectLanguage
    dresult     \* what detectLanguage returned for it

vars == <<call, output, spawned, proc, chunks, stderr, promise, closeObs, fs,
          cli, dtext, dresult>>

synVars == <<call, output, spawned, proc, chunks, stderr, promise, closeObs, fs>>
detVars == <<dtext, dresult>>

\* ------------------------------------------------------------------------
\* Values
\* ------------------------------------------------------------------------
Undefined == "undefined"        \* an option the caller did not supply
NoCall == [text |-> <<>>, options |-> <<>>, made |-> FALSE]
NoError == [message |-> <<>>]
Error(message) == [message |-> message]

\* A JavaScript number n is <<n>> and null is <<>>, so that `code === 0`
\* can be evaluated for the null exit code of a process killed by a signal.
Num(n) == <<n>>
JsNull == <<>>

PYTHON_SCRIPT == "tts.py"

\* join(tmpdir(), `tts-${randomUUID()}.mp3`): a path no other call and no
\* caller has.
TempPath(i) == "tmp/tts-" \o ToString(i) \o ".mp3"
UserPaths == {"a.mp3"}
Paths == UserPaths \cup {TempPath(i) : i \in CallIds}

Absent == "absent"              \* no file at the path
OldFile == "old"                \* a file that was there before any call
AudioOf(i) == "audio-" \o ToString(i)   \* what the process of call i writes
existsSync(files, path) == files[path] # Absent

\* Texts are sequences of characters.
Texts == {<<>>, <<"h", "i">>}

Options(o, g, r, p, v) ==
    [output |-> o, gender |-> g, rate |-> r, pitch |-> p, volume |-> v]
\* every combination of supplied and omitted options
AllOptions ==
    {Options(o, g, r, p, v) :
        o \in {Undefined, "a.mp3"}, g \in {Undefined, "male"},
        r \in {Undefined, "+10%"}, p \in {Undefined, "-5Hz"},
        v \in {Undefined, "-20%"}}
\* the options of the concurrent calls: the generated path or a shared one
OptionChoices ==
    {Options(o, Undefined, Undefined, Undefined, Undefined) :
        o \in {Undefined, "a.mp3"}}

\* ------------------------------------------------------------------------
\* Buffer.prototype.toString(): UTF-8 decoding of one chunk on its own.
\* One- and two-byte sequences are decoded; a byte that does not start a
\* complete sequence inside the chunk becomes U+FFFD.
\* ------------------------------------------------------------------------
ReplacementChar == 65533
StderrChars == {97, 233}        \* 'a' (one byte), 'e-acute' (two bytes)

Utf8Encode(cp) ==
    IF cp < 128 THEN <<cp>> ELSE <<192 + (cp \div 64), 128 + (cp % 64)>>

RECURSIVE toString(_)
toString(bytes) ==
    IF bytes = <<>> THEN <<>>
    ELSE LET b == Head(bytes) IN
         IF b < 128 THEN <<b>> \o toString(Tail(bytes))
         ELSE IF /\ b \in 194..223
                 /\ Len(bytes) >= 2
                 /\ bytes[2] \in 128..191
              THEN <<(b - 192) * 64 + (bytes[2] - 128)>>
                       \o toString(SubSeq(bytes, 3, Len(bytes)))
              ELSE <<ReplacementChar>> \o toString(Tail(bytes))

RECURSIVE Flatten(_)
Flatten(ss) == IF ss = <<>> THEN <<>> ELSE Head(ss) \o Flatten(Tail(ss))

\* all the bytes the process of call i has written to its stderr so far
Written(i) == Flatten(chunks[i]) \o proc[i].pipe

\* ------------------------------------------------------------------------
\* The promise of a call (lines 37, 57, 59, 63)
\* ------------------------------------------------------------------------
NoPromise == [state |-> "none", value |-> "", reason |-> NoError]
Pending == [state |-> "pending", value |-> "", reason |-> NoError]

resolve(p, v) ==
    IF p.state = "pending"
    THEN [state |-> "fulfilled", value |-> v, reason |-> NoError]
    ELSE p

rejectOverwrite(p, e) == [state |-> "rejected", value |-> "", reason |-> e]

reject(p, e) ==
    IF p.state = "pending"
    THEN [state |-> "rejected", value |-> "", reason |-> e]
    ELSE p

Settled(i) == promise[i].state \in {"fulfilled", "rejected"}

\* `${code}` in a template literal
TemplateCode(code) == IF code = JsNull THEN "null" ELSE ToString(code[1])

\* new Error(`TTS failed (code ${code}): ${stderr}`)
TTSFailed(code, text) ==
    Error(<<"TTS failed (code ", TemplateCode(code), "): ", text>>)

\* the errors of spawn: errnoException(errno, syscall)
ErrnoName(errno) ==
    CASE errno = -2 -> "ENOENT" [] errno = -13 -> "EACCES" [] OTHER -> "ENOMEM"
AsyncErrnos == {-2, -13}        \* reported by the 'error' event
SyncErrnos == {-12}             \* thrown by spawn itself
SpawnError(errno) == Error(<<"spawn python3 ", ErrnoName(errno)>>)
SpawnThrown(errno) == Error(<<"spawn ", ErrnoName(errno)>>)

ExitCodes == {Num(0), Num(1), JsNull}

\* ------------------------------------------------------------------------
\* synthesize (lines 28-65)
\* ------------------------------------------------------------------------
DefaultIgnored(v, d) == d

\* a destructuring default: used when the property is undefined
Default(v, d) == IF v = Undefined THEN d ELSE v

\* lines 38-46
SpawnArgs(text, out, gender, rate, pitch, volume) ==
    <<PYTHON_SCRIPT, text, "-o", out, "-g", gender, "-r", rate,
      "-p", pitch, "-v", volume>>

NoProc == [phase |-> "none", code |-> JsNull, pipe |-> <<>>, wrote |-> 0]

\* the process that runs the command line is alive and its microtask queue
\* (the .then/.catch reactions of the command line) is empty
HostReady ==
    /\ cli.exit = <<>>
    /\ ~(cli.mode \in {"test", "text"} /\ Settled(1) /\ ~cli.reacted)

\* lines 29-48 and 63: the body of synthesize up to the return of the promise
SynthesizeBody(i, text, options, launch, errno) ==
    LET out == Default(options.output, TempPath(i))
        args == SpawnArgs(text, out,
                          Default(options.gender, "female"),
                          Default(options.rate, "+0%"),
                          Default(options.pitch, "+0Hz"),
                          Default(options.volume, "+0%"))
    IN /\ ~call[i].made
       /\ call' = [call EXCEPT ![i] =
                      [text |-> text, options |-> options, made |-> TRUE]]
       /\ output' = [output EXCEPT ![i] = out]
       /\ spawned' = [spawned EXCEPT ![i] = Append(@, args)]
       /\ proc' = [proc EXCEPT ![i] =
                      [phase |-> CASE launch = "ok" -> "running"
                                   [] launch = "error" -> "failed"
                                   [] OTHER -> "none",
                       code |-> IF launch = "error" THEN Num(errno) ELSE JsNull,
                       pipe |-> <<>>, wrote |-> 0]]
       /\ stderr' = [stderr EXCEPT ![i] = <<>>]
       /\ promise' = [promise EXCEPT ![i] =
                         IF launch = "throw"
                         THEN reject(Pending, SpawnThrown(errno))
                         ELSE Pending]
       /\ UNCHANGED <<chunks, closeObs, fs>>

Launches ==
    {<<"ok", 0>>} \cup {<<"error", e>> : e \in AsyncErrnos}
                  \cup {<<"throw", e>> : e \in SyncErrnos}

Synthesize(i, text, options) ==
    /\ cli.mode = "none"
    /\ \E l \in Launches : SynthesizeBody(i, text, options, l[1], l[2])
    /\ UNCHANGED <<cli, detVars>>

\* the external process: it writes to stderr, creates or removes the file
\* at the output path it was given, and ends
ProcWriteStderr(i, c) ==
    /\ proc[i].phase = "running"
    /\ proc[i].wrote < MaxStderrChars
    /\ proc' = [proc EXCEPT ![i].pipe = @ \o Utf8Encode(c),
                            ![i].wrote = @ + 1]
    /\ UNCHANGED <<call, output, spawned, chunks, stderr, promise, closeObs,
                   fs, cli, detVars>>

ProcWriteFile(i) ==
    /\ proc[i].phase = "running"
    /\ fs[output[i]] # AudioOf(i)
    /\ fs' = [fs EXCEPT ![output[i]] = AudioOf(i)]
    /\ UNCHANGED <<call, output, spawned, proc, chunks, stderr, promise,
                   closeObs, cli, detVars>>

ProcRemoveFile(i) ==
    /\ proc[i].phase = "running"
    /\ fs[output[i]] # Absent
    /\ fs' = [fs EXCEPT ![output[i]] = Absent]
    /\ UNCHANGED <<call, output, spawned, proc, chunks, stderr, promise,
                   closeObs, cli, detVars>>

ProcExit(i, code) ==
    /\ proc[i].phase = "running"
    /\ proc' = [proc EXCEPT ![i].phase = "exited", ![i].code = code]
    /\ UNCHANGED <<call, output, spawned, chunks, stderr, promise, closeObs,
                   fs, cli, detVars>>

OnStderrDataShared(captured, i, data) ==
    [j \in DOMAIN captured |-> captured[j] \o toString(data)]

\* lines 51-53: stderr += data.toString()
OnStderrData(captured, i, data) ==
    [captured EXCEPT ![i] = @ \o toString(data)]

\* a 'data' event: the first n bytes waiting in the pipe arrive as one Buffer
StderrData(i, n) ==
    /\ HostReady
    /\ proc[i].phase \in {"running", "exited"}
    /\ n \in 1..Len(proc[i].pipe)
    /\ LET data == SubSeq(proc[i].pipe, 1, n) IN
           /\ stderr' = OnStderrData(stderr, i, data)
           /\ chunks' = [chunks EXCEPT ![i] = Append(@, data)]
    /\ proc' = [proc EXCEPT ![i].pipe = SubSeq(@, n + 1, Len(@))]
    /\ UNCHANGED <<call, output, spawned, promise, closeObs, fs, cli, detVars>>

OnErrorIgnored(p, err) == p

\* line 63: proc.on('error', reject)
OnError(p, err) == reject(p, err)

\* the 'error' event of a process that could not be launched
ErrorEvent(i) ==
    /\ HostReady
    /\ proc[i].phase = "failed"
    /\ promise' = [promise EXCEPT ![i] = OnError(@, SpawnError(proc[i].code[1]))]
    /\ proc' = [proc EXCEPT ![i].phase = "errored"]
    /\ UNCHANGED <<call, output, spawned, chunks, stderr, closeObs, fs, cli,
                   detVars>>

OnCloseTrustsCode(p, code, exists, out, text) ==
    IF code = Num(0) THEN resolve(p, out) ELSE reject(p, TTSFailed(code, text))

OnCloseSilentIfMissing(p, code, exists, out, text) ==
    IF code = Num(0)
    THEN (IF exists THEN resolve(p, out) ELSE p)
    ELSE reject(p, TTSFailed(code, text))

\* lines 55-61
OnClose(p, code, exists, out, text) ==
    IF code = Num(0) /\ exists
    THEN resolve(p, out)
    ELSE reject(p, TTSFailed(code, text))

NotClosed == [seen |-> FALSE, code |-> JsNull, file |-> Absent, text |-> <<>>]

\* the 'close' event: the process has ended and its stdio streams are closed
CloseEvent(i) ==
    /\ HostReady
    /\ \/ proc[i].phase = "exited" /\ proc[i].pipe = <<>>
       \/ proc[i].phase = "errored"
    /\ promise' = [promise EXCEPT ![i] =
                      OnClose(@, proc[i].code, existsSync(fs, output[i]),
                              output[i], stderr[i])]
    /\ closeObs' = [closeObs EXCEPT ![i] =
                       [seen |-> TRUE, code |-> proc[i].code,
                        file |-> fs[output[i]], text |-> stderr[i]]]
    /\ proc' = [proc EXCEPT ![i].phase = "closed"]
    /\ UNCHANGED <<call, output, spawned, chunks, stderr, fs, cli, detVars>>


\* ------------------------------------------------------------------------
\* The library used by a program: concurrent synthesize calls
\* ------------------------------------------------------------------------
NoCli == [mode |-> "none", argv |-> <<>>, stdout |-> <<>>, stderr |-> <<>>,
          reacted |-> FALSE, exit |-> <<>>]

InitSynthesize ==
    /\ call = [i \in CallIds |-> NoCall]
    /\ output = [i \in CallIds |-> ""]
    /\ spawned = [i \in CallIds |-> <<>>]
    /\ proc = [i \in CallIds |-> NoProc]
    /\ chunks = [i \in CallIds |-> <<>>]
    /\ stderr = [i \in CallIds |-> <<>>]
    /\ promise = [i \in CallIds |-> NoPromise]
    /\ closeObs = [i \in CallIds |-> NotClosed]
    /\ fs \in {f \in [Paths -> {Absent, OldFile}] :
                  \A i \in CallIds : f[TempPath(i)] = Absent}

Init ==
    /\ InitSynthesize
    /\ cli = NoCli
    /\ dtext = <<>>
    /\ dresult = "?"

\* one call, with every input and every behaviour of the process
Next ==
    \/ \E text \in Texts, options \in AllOptions : Synthesize(1, text, options)
    \/ \E c \in StderrChars : ProcWriteStderr(1, c)
    \/ ProcWriteFile(1)
    \/ ProcRemoveFile(1)
    \/ \E code \in ExitCodes : ProcExit(1, code)
    \/ \E n \in 1..(2 * MaxStderrChars) : StderrData(1, n)
    \/ ErrorEvent(1)
    \/ CloseEvent(1)

Spec == Init /\ [][Next]_vars

\* the process ends, and the event loop delivers the events that are due
Fairness ==
    /\ WF_vars(\E code \in ExitCodes : ProcExit(1, code))
    /\ WF_vars(\E n \in 1..(2 * MaxStderrChars) : StderrData(1, n))
    /\ WF_vars(ErrorEvent(1))
    /\ WF_vars(CloseEvent(1))

FairSpec == Spec /\ Fairness

\* several calls in flight together; they use the generated path or the
\* same caller-supplied one, and each process writes its diagnostic text
\* in one piece
ConcNext ==
    \/ \E i \in CallIds, options \in OptionChoices :
           /\ cli.mode = "none"
           /\ \E l \in {<<"ok", 0>>, <<"error", -2>>} :
                  SynthesizeBody(i, <<"h", "i">>, options, l[1], l[2])
           /\ UNCHANGED <<cli, detVars>>
    \/ \E i \in CallIds : proc[i].wrote = 0 /\ ProcWriteStderr(i, 97)
    \/ \E i \in CallIds : ProcWriteFile(i)
    \/ \E i \in CallIds, code \in {Num(0), Num(1)} : ProcExit(i, code)
    \/ \E i \in CallIds, n \in 1..MaxStderrChars : StderrData(i, n)
    \/ \E i \in CallIds : ErrorEvent(i)
    \/ \E i \in CallIds : CloseEvent(i)

ConcSpec == Init /\ [][ConcNext]_vars

\* ------------------------------------------------------------------------
\* detectLanguage (lines 72-86).  A text is its sequence of UTF-16 code
\* units; a character class is a set of inclusive ranges.
\* ------------------------------------------------------------------------
\* /[...]/.test(text): some code unit of the text lies in some range
RegexTest(class, text) ==
    \E k \in 1..Len(text) : \E r \in class : r[1] <= text[k] /\ text[k] <= r[2]

\* [\u3040-\u309F\u30A0-\u30FF]
KanaClass == {<<12352, 12447>>, <<12448, 12543>>}
\* the sixteen characters of the literal class on line 77
CantoneseMarkers ==
    {20418, 21780, 20322, 22021, 20871, 30535, 21655, 22175,
     21946, 21707, 20478, 35543, 20060, 22050, 21633, 21902}
CantoneseClass == {<<c, c>> : c \in CantoneseMarkers}
\* [\u4E00-\u9FFF]
HanClass == {<<19968, 40959>>}
\* [a-zA-Z]
LatinClass == {<<97, 122>>, <<65, 90>>}

detectLanguageHanFirst(text) ==
    IF RegexTest(KanaClass, text) THEN "ja"
    ELSE IF RegexTest(HanClass, text) THEN "zh"
    ELSE IF RegexTest(CantoneseClass, text) THEN "yue"
    ELSE IF RegexTest(LatinClass, text) THEN "en"
    ELSE "neutral"

detectLanguage(text) ==
    IF RegexTest(KanaClass, text) THEN "ja"
    ELSE IF RegexTest(CantoneseClass, text) THEN "yue"
    ELSE IF RegexTest(HanClass, text) THEN "zh"
    ELSE IF RegexTest(LatinClass, text) THEN "en"
    ELSE "neutral"

\* The code units the texts are made of, by what they are:
KanaUnits == {12352, 12354, 12447, 12448, 12543}      \* U+3040 U+3042 U+309F U+30A0 U+30FF
MarkerUnits == {20418, 20060}                         \* U+4FC2 U+4E5C
PlainHanUnits == {19968, 20320, 40959}                \* U+4E00 U+4F60 U+9FFF
LatinUnits == {65, 90, 97, 122}                       \* A Z a z
\* U+303F, U+3100, U+3400, U+4DFF, U+A000, fullwidth A, a surrogate,
\* '1', '@', '[', '`', '{', ' '
OtherUnits == {12351, 12544, 13312, 19967, 40960, 65313, 55357,
               49, 64, 91, 96, 123, 32}
DetectUnits ==
    KanaUnits \cup MarkerUnits \cup PlainHanUnits \cup LatinUnits \cup OtherUnits
DetectTexts == UNION {[1..n -> DetectUnits] : n \in 0..MaxTextLen}

NotDetected == "?"

InitDetect ==
    /\ InitSynthesize
    /\ cli = NoCli
    /\ dtext \in DetectTexts
    /\ dresult = NotDetected

Detect ==
    /\ dresult = NotDetected
    /\ dresult' = detectLanguage(dtext)
    /\ UNCHANGED <<synVars, cli, dtext>>

DetectSpec == InitDetect /\ [][Detect]_vars

\* ------------------------------------------------------------------------
\* The command line (lines 89-110).  An argument is a sequence of
\* characters.
\* ------------------------------------------------------------------------
startsWith(a, c) == Len(a) >= 1 /\ a[1] = c
includes(args, a) == \E k \in 1..Len(args) : args[k] = a

RECURSIVE join(_, _)
join(parts, sep) ==
    IF parts = <<>> THEN <<>>
    ELSE IF Len(parts) = 1 THEN parts[1]
    ELSE parts[1] \o sep \o join(Tail(parts), sep)

FlagM == <<"-", "m">>
FlagMale == <<"-", "-", "m", "a", "l", "e">>
FlagTest == <<"-", "-", "t", "e", "s", "t">>
\* line 94; a character outside ASCII is written as its code point
SampleText ==
    <<"U+54C8", "U+56C9", "U+FF01", "U+9019", "U+662F", "U+6E2C", "U+8A66",
      "U+8A9E", "U+97F3", "U+3002",
      "H", "e", "l", "l", "o", " ", "w", "o", "r", "l", "d", "!">>

\* line 98
textOf(args) == join(SelectSeq(args, LAMBDA a : ~startsWith(a, "-")), <<" ">>)

\* line 99
genderOf(args) ==
    IF includes(args, FlagM) \/ includes(args, FlagMale) THEN "male" ELSE "female"

ArgTokens ==
    {<<>>, <<"h", "i">>, <<"-", "5">>, FlagM, FlagMale, FlagTest}
Argvs == UNION {[1..n -> ArgTokens] : n \in 0..MaxArgs}

InitCLI ==
    /\ InitSynthesize
    /\ cli \in {[mode |-> "start", argv |-> a, stdout |-> <<>>, stderr |-> <<>>,
                 reacted |-> FALSE, exit |-> <<>>] : a \in Argvs}
    /\ dtext = <<>>
    /\ dresult = NotDetected

NoOptions == Options(Undefined, Undefined, Undefined, Undefined, Undefined)

\* lines 92-96: tool --test
CLITest ==
    /\ cli.mode = "start"
    /\ includes(cli.argv, FlagTest)
    /\ \E l \in Launches : SynthesizeBody(1, SampleText, NoOptions, l[1], l[2])
    /\ cli' = [cli EXCEPT !.mode = "test",
                          !.stdout = Append(@, <<"Testing Smart TTS...">>)]
    /\ UNCHANGED detVars

\* lines 97-105: tool "<text>" [-m|--male]
CLIText ==
    /\ cli.mode = "start"
    /\ ~includes(cli.argv, FlagTest)
    /\ Len(cli.argv) > 0
    /\ \E l \in Launches :
           SynthesizeBody(1, textOf(cli.argv),
                          [NoOptions EXCEPT !.gender = genderOf(cli.argv)],
                          l[1], l[2])
    /\ cli' = [cli EXCEPT !.mode = "text"]
    /\ UNCHANGED detVars

\* lines 106-109: tool
CLIUsage ==
    /\ cli.mode = "start"
    /\ ~includes(cli.argv, FlagTest)
    /\ Len(cli.argv) = 0
    /\ cli' = [cli EXCEPT
                  !.mode = "usage",
                  !.stdout = @ \o <<<<"Usage: smart-tts \"text to speak\" [-m|--male]">>,
                                    <<"       smart-tts --test">>>>]
    /\ UNCHANGED <<synVars, detVars>>

\* lines 95 and 101: the .then reaction
CLIThen ==
    /\ cli.exit = <<>>
    /\ cli.mode \in {"test", "text"}
    /\ ~cli.reacted
    /\ promise[1].state = "fulfilled"
    /\ cli' = [cli EXCEPT
                  !.reacted = TRUE,
                  !.stdout = Append(@, IF cli.mode = "test"
                                       THEN <<"Generated:", promise[1].value>>
                                       ELSE <<promise[1].value>>)]
    /\ UNCHANGED <<synVars, detVars>>

\* lines 96 and 102-105: the .catch reaction
CLICatch ==
    /\ cli.exit = <<>>
    /\ cli.mode \in {"test", "text"}
    /\ ~cli.reacted
    /\ promise[1].state = "rejected"
    /\ cli' = [cli EXCEPT
                  !.reacted = TRUE,
                  !.stderr = Append(@, IF cli.mode = "test"
                                       THEN <<"Error:", promise[1].reason.message>>
                                       ELSE <<promise[1].reason.message>>),
                  !.exit = IF cli.mode = "text" THEN <<1>> ELSE @]
    /\ UNCHANGED <<synVars, detVars>>

\* nothing is left to run: node ends the process with status 0
CLIEnd ==
    /\ cli.exit = <<>>
    /\ \/ cli.mode = "usage"
       \/ /\ cli.mode \in {"test", "text"}
          /\ cli.reacted
          /\ proc[1].phase \in {"none", "closed"}
    /\ cli' = [cli EXCEPT !.exit = <<0>>]
    /\ UNCHANGED <<synVars, detVars>>

CLINext ==
    \/ CLITest
    \/ CLIText
    \/ CLIUsage
    \/ CLIThen
    \/ CLICatch
    \/ CLIEnd
    \/ \E c \in StderrChars : ProcWriteStderr(1, c)
    \/ ProcWriteFile(1)
    \/ ProcRemoveFile(1)
    \/ \E code \in ExitCodes : ProcExit(1, code)
    \/ \E n \in 1..(2 * MaxStderrChars) : StderrData(1, n)
    \/ ErrorEvent(1)
    \/ CloseEvent(1)

CLISpec == InitCLI /\ [][CLINext]_vars

\* ------------------------------------------------------------------------
\* Properties of synthesize
\* ------------------------------------------------------------------------
Launched(i) == call[i].made /\ proc[i].phase \in {"running", "exited", "closed"}
                            /\ (proc[i].code = JsNull \/ proc[i].code[1] >= 0)
LaunchFailed(i) == /\ proc[i].phase \in {"failed", "errored", "closed"}
                   /\ proc[i].code # JsNull
                   /\ proc[i].code[1] < 0
CleanClose(i) ==
    closeObs[i].seen /\ closeObs[i].code = Num(0) /\ closeObs[i].file # Absent

\* C1: a call is fulfilled exactly when its process closed with exit code 0
\* while a file was at the output path; the value is then the output path
\* handed to the process; a close with code 0 and no file rejects.
C1_ResolvesIffCode0AndFile ==
    \A i \in CallIds :
        /\ (promise[i].state = "fulfilled") <=> CleanClose(i)
        /\ promise[i].state = "fulfilled" =>
               /\ promise[i].value = spawned[i][1][4]
               /\ promise[i].value =
                      (IF call[i].options.output = Undefined
                       THEN TempPath(i) ELSE call[i].options.output)
        /\ (closeObs[i].seen /\ closeObs[i].code = Num(0)
                             /\ closeObs[i].file = Absent)
               => promise[i].state = "rejected"

C1_Witness ==
    \E i \in CallIds :
        /\ promise[i].state = "fulfilled"
        /\ call[i].options.output = Undefined
        /\ closeObs[i].seen

\* C2: after a close with a non-zero exit code the rejection message holds
\* the exit code and the whole text the process wrote to stderr.
C2_MessageCarriesAllStderr ==
    \A i \in CallIds :
        (/\ Launched(i)
         /\ closeObs[i].seen
         /\ closeObs[i].code # JsNull
         /\ closeObs[i].code[1] # 0) =>
            /\ promise[i].state = "rejected"
            /\ promise[i].reason =
                   TTSFailed(closeObs[i].code, toString(Written(i)))

\* C3: when the 'error' event has fired the call is rejected with the
\* launch error, which holds no exit code, and stays so when 'close' follows
\* and a file is at the output path.
C3_LaunchErrorRejects ==
    \A i \in CallIds :
        (LaunchFailed(i) /\ proc[i].phase \in {"errored", "closed"}) =>
            /\ promise[i].state = "rejected"
            /\ promise[i].reason = SpawnError(proc[i].code[1])
            /\ promise[i].reason.message =
                   <<"spawn python3 ", ErrnoName(proc[i].code[1])>>

C3_Witness ==
    \E i \in CallIds :
        /\ LaunchFailed(i)
        /\ closeObs[i].seen
        /\ closeObs[i].file # Absent
        /\ promise[i].state = "rejected"

\* C7: a call has launched exactly one process, whatever happened to it,
\* with the text unchanged and each option as supplied or else its default.
ArgOf(options, key, default) ==
    IF options[key] # Undefined THEN options[key] ELSE default

C7_OneProcessMergedArgs ==
    \A i \in CallIds :
        /\ ~call[i].made => spawned[i] = <<>>
        /\ call[i].made =>
               /\ Len(spawned[i]) = 1
               /\ spawned[i][1] =
                      <<"tts.py", call[i].text,
                        "-o", ArgOf(call[i].options, "output", TempPath(i)),
                        "-g", ArgOf(call[i].options, "gender", "female"),
                        "-r", ArgOf(call[i].options, "rate", "+0%"),
                        "-p", ArgOf(call[i].options, "pitch", "+0Hz"),
                        "-v", ArgOf(call[i].options, "volume", "+0%")>>

C7_Witness ==
    \E i \in CallIds :
        /\ call[i].made
        /\ call[i].text = <<>>
        /\ call[i].options.rate # Undefined
        /\ call[i].options.gender = Undefined
        /\ closeObs[i].seen
        /\ promise[i].state = "rejected"
        /\ Len(spawned[i]) = 1

\* C9: a call is pending while its process runs and until 'close' (or the
\* launch error) has fired, is settled once that has happened, and, the
\* process ending, is eventually settled.
C9_PendingUntilCloseThenSettled ==
    /\ [](\A i \in CallIds :
            /\ proc[i].phase \in {"running", "exited", "failed"}
                   => promise[i].state = "pending"
            /\ (call[i].made /\ proc[i].phase \in {"none", "errored", "closed"})
                   => Settled(i))
    /\ \A i \in CallIds : call[i].made ~> Settled(i)

C9_Witness ==
    \E i \in CallIds :
        /\ proc[i].phase = "closed"
        /\ proc[i].code = JsNull
        /\ Settled(i)

\* C10: once a call is fulfilled or rejected, no later event changes the
\* outcome or its error.
C10_SettledOnce ==
    [][\A i \in CallIds : Settled(i) => promise'[i] = promise[i]]_vars

C10_Witness ==
    \E i \in CallIds :
        /\ LaunchFailed(i)
        /\ proc[i].phase = "closed"
        /\ closeObs[i].seen
        /\ promise[i].reason = SpawnError(proc[i].code[1])

\* ------------------------------------------------------------------------
\* Concurrent calls
\* ------------------------------------------------------------------------
RECURSIVE DecodeChunks(_)
DecodeChunks(cs) ==
    IF cs = <<>> THEN <<>> ELSE toString(Head(cs)) \o DecodeChunks(Tail(cs))

\* the outcome of call i as its own process, its own stderr chunks and the
\* file found at its own output path decide it
OwnOutcome(i) ==
    IF ~call[i].made THEN NoPromise
    ELSE IF LaunchFailed(i)
         THEN (IF proc[i].phase = "failed" THEN Pending
               ELSE [state |-> "rejected", value |-> "",
                     reason |-> SpawnError(proc[i].code[1])])
    ELSE IF ~closeObs[i].seen THEN Pending
    ELSE IF CleanClose(i)
         THEN [state |-> "fulfilled", value |-> output[i], reason |-> NoError]
    ELSE [state |-> "rejected", value |-> "",
          reason |-> TTSFailed(closeObs[i].code, DecodeChunks(chunks[i]))]

Independent(i) ==
    /\ stderr[i] = DecodeChunks(chunks[i])
    /\ proc[i].phase # "none" => promise[i] = OwnOutcome(i)

\* the file the 'close' handler of call i found is none, one that was
\* there before, or the one its own process wrote
OwnFile(i) == closeObs[i].file \in {Absent, OldFile, AudioOf(i)}

OwnPath(i) ==
    \A j \in CallIds \ {i} : call[j].made => output[j] # output[i]

\* C8 as amended: under every interleaving the outcome of a call is decided
\* by its own process's exit code, its own stderr and the file at its own
\* output path; when no other call has the same output path, that file is
\* never one another call's process wrote.
C8_IndependentOnOwnPath ==
    \A i \in CallIds :
        /\ Independent(i)
        /\ (call[i].made /\ OwnPath(i)) => OwnFile(i)

\* C8 as stated: the outcome of a call is decided by its own process's exit
\* code, its own stderr and its own output file, and the file found at its
\* output path is never one another call's process wrote.
C8_Original ==
    \A i \in CallIds :
        /\ Independent(i)
        /\ call[i].made => OwnFile(i)

C8_Witness ==
    \E i, j \in CallIds :
        /\ i # j
        /\ output[i] # output[j]
        /\ promise[i].state = "fulfilled"
        /\ closeObs[i].file = AudioOf(i)
        /\ promise[j].state = "rejected"
        /\ closeObs[j].code = Num(0)
        /\ stderr[j] # <<>>
        /\ stderr[i] # <<>>

\* ------------------------------------------------------------------------
\* Properties of detectLanguage
\* ------------------------------------------------------------------------
Has(text, units) == \E k \in 1..Len(text) : text[k] \in units

\* C4: the tag is that of the first rule, in the order kana, Cantonese
\* marker, Han ideograph, ASCII letter, whose characters the text holds,
\* and "neutral" when it holds none.
C4_FirstMatchingRule ==
    dresult # NotDetected =>
        dresult = CASE Has(dtext, KanaUnits) -> "ja"
                    [] ~Has(dtext, KanaUnits) /\ Has(dtext, MarkerUnits) -> "yue"
                    [] /\ ~Has(dtext, KanaUnits \cup MarkerUnits)
                       /\ Has(dtext, PlainHanUnits) -> "zh"
                    [] /\ ~Has(dtext, KanaUnits \cup MarkerUnits \cup PlainHanUnits)
                       /\ Has(dtext, LatinUnits) -> "en"
                    [] OTHER -> "neutral"

C4_Witness ==
    /\ dresult = "yue"
    /\ Len(dtext) = 2
    /\ dtext[1] \in PlainHanUnits
    /\ dtext[2] \in MarkerUnits

\* ------------------------------------------------------------------------
\* Properties of the command line
\* ------------------------------------------------------------------------
Printed(stream, word) ==
    \E k \in 1..Len(stream) : stream[k][Len(stream[k])] = word

\* C5: when the synthesis of the command line has failed, the process has
\* printed the message to standard error and ends with a non-zero status,
\* in text mode and in --test mode.
C5_FailureExitsNonZero ==
    (/\ cli.mode \in {"test", "text"}
     /\ promise[1].state = "rejected"
     /\ cli.exit # <<>>) =>
        /\ cli.exit # <<0>>
        /\ Printed(cli.stderr, promise[1].reason.message)

\* tool "<text>" [-m|--male]
TextInvocation(argv) ==
    /\ Len(argv) \in {1, 2}
    /\ Len(argv) = 2 => argv[2] \in {FlagM, FlagMale}

UsageLines ==
    <<<<"Usage: smart-tts \"text to speak\" [-m|--male]">>,
      <<"       smart-tts --test">>>>

SynthesizesArgument ==
    /\ cli.mode = "text"
    /\ call[1].made
    /\ Len(spawned[1]) = 1
    /\ call[1].text = cli.argv[1]
    /\ spawned[1][1][2] = cli.argv[1]
    /\ (call[1].options.gender = "male") <=> (Len(cli.argv) = 2)
    /\ call[1].options.gender \in {"male", "female"}
    /\ spawned[1][1][6] = call[1].options.gender
    /\ (promise[1].state = "fulfilled" /\ cli.reacted)
           => cli.stdout = <<<<output[1]>>>>
    /\ promise[1].state # "fulfilled" => cli.stdout = <<>>

NoArguments ==
    /\ cli.mode = "usage"
    /\ cli.stdout = UsageLines
    /\ cli.stderr = <<>>
    /\ ~call[1].made
    /\ spawned[1] = <<>>

\* what the command line does for a text that does not begin with "-"
TextNotStartingWithDash ==
    cli.mode \notin {"none", "start"} =>
        /\ cli.argv = <<>> => NoArguments
        /\ (TextInvocation(cli.argv) /\ ~startsWith(cli.argv[1], "-"))
               => SynthesizesArgument

\* C6: for every text argument (any argument but the documented flags),
\* alone or followed by -m or --male, one synthesis is started with exactly
\* that text and with gender male iff the flag is given, and the path is
\* printed on success; with no argument the usage is printed and no
\* synthesis is started.
C6_SynthesizesSuppliedText ==
    cli.mode \notin {"none", "start"} =>
        /\ cli.argv = <<>> => NoArguments
        /\ (/\ TextInvocation(cli.argv)
            /\ cli.argv[1] \notin {FlagM, FlagMale, FlagTest})
               => SynthesizesArgument

TextSynthesized ==
    /\ cli.argv = <<<<"h", "i">>, FlagMale>>
    /\ cli.reacted
    /\ promise[1].state = "fulfilled"
    /\ cli.stdout = <<<<output[1]>>>>
    /\ call[1].options.gender = "male"
    /\ cli.exit = <<0>>

====
